---- MODULE Spec2Model ----
(***************************************************************************)
(* A state-machine model of sentiment-analysis/tf-sentiment-analysis.ipynb *)
(* run top to bottom: dataset preparation (load, pad, save), local and     *)
(* hosted training, batch transform, decoding of reviews, and the          *)
(* hyperparameter tuning job.  The blanks of the notebook (<REPLACE_ME>)   *)
(* are filled in as the TODO comment above each of them asks.  The managed *)
(* platform is the environment: a training or transform job is a record of *)
(* what it found at its input channels when it started, and the tuning job *)
(* is a small scheduler bounded by the parameters the notebook passes.     *)
(***************************************************************************)
EXTENDS Integers, Sequences, FiniteSets, Bags, TLC

(* ------------------------------------------------------------------ *)
(* Bounds of the model                                                 *)
(* ------------------------------------------------------------------ *)

\* number of different corpora Init draws the dataset from
NumCorpora == 3
\* number of words of the word index that the corpora use
VocabSize == 5
\* how far beyond maxlen the longest raw review goes
MaxOver == 2
\* number of test reviews (the notebook reads x_test[0] and x_test[5])
NumTest == 6
\* number of train reviews
NumTrain == 2

(* ------------------------------------------------------------------ *)
(* Program constants                                                   *)
(* ------------------------------------------------------------------ *)

max_features == 20000
maxlen == 400

\* imdb.load_data defaults: start_char=1, oov_char=2, index_from=3; 0 pads
pad_value == 0
start_char == 1
oov_char == 2
index_from == 3

\* the budget and the parallelism the TODO of the tuner cell asks for
max_jobs == 10
max_parallel_jobs == 2

train_dir == "data/train"
test_dir == "data/test"
csv_test_dir == "data/csv-test"
traindata_s3_prefix == "tf-keras-sentiment/data/train"
testdata_s3_prefix == "tf-keras-sentiment/data/test"
csvtestdata_s3_prefix == "tf-keras-sentiment/data/csv-test"


(* ------------------------------------------------------------------ *)
(* The dataset (imdb) and the word index                               *)
(* ------------------------------------------------------------------ *)

\* the most frequent words of the imdb word index, by rank (rank 1 first)
TopWords == <<"the", "and", "a", "of", "to", "is", "br", "in", "it", "i">>

\* imdb.get_word_index(): word -> rank, ranks 1..VocabSize, one word per rank
get_word_index == [w \in {TopWords[r] : r \in 1..VocabSize} |->
                     CHOOSE r \in 1..VocabSize : TopWords[r] = w]

\* raw review lengths: short ones, and the ones around maxlen
ReviewLengths == <<1, 2, maxlen - 1, maxlen, maxlen + 1, maxlen + MaxOver>>

LengthAt(k) == ReviewLengths[(k % Len(ReviewLengths)) + 1]

\* the k-th encoded word: rank + index_from, or oov_char for a word cut
\* off by num_words
EncodedWord(k, num_words) ==
    LET rank == k % (VocabSize + 1)
    IN  IF rank = 0 \/ rank + index_from >= num_words
        THEN oov_char ELSE rank + index_from

\* a review as imdb.load_data returns it: start_char, then encoded words
EncodedReview(n, seed, num_words) ==
    [i \in 1..n |-> IF i = 1 THEN start_char
                    ELSE EncodedWord(i + seed, num_words)]

\* imdb.load_data(num_words) on corpus c: (x_train, x_test)
load_data(c, num_words) ==
    [x_train |-> [k \in 1..NumTrain |->
                    EncodedReview(LengthAt(c + 3 * k), c + k, num_words)],
     x_test  |-> [k \in 1..NumTest |->
                    EncodedReview(LengthAt(c + k - 1), c + 2 * k, num_words)]]

(* ------------------------------------------------------------------ *)
(* sequence.pad_sequences(sequences, maxlen=m)                         *)
(* padding='pre', truncating='pre', value=0 are the defaults           *)
(* ------------------------------------------------------------------ *)

\* a plausible slip: pads, but never truncates a longer sequence
pad_one_no_truncation(s, m) ==
    IF Len(s) >= m THEN s
    ELSE [i \in 1..m |-> IF i <= m - Len(s) THEN pad_value
                         ELSE s[i - (m - Len(s))]]

pad_one(s, m) ==
    LET n     == Len(s)
        trunc == IF n > m THEN SubSeq(s, n - m + 1, n) ELSE s
        k     == Len(trunc)
    IN  [i \in 1..m |-> IF i <= m - k THEN pad_value ELSE trunc[i - (m - k)]]

pad_sequences(seqs, m) == [k \in 1..Len(seqs) |-> pad_one(seqs[k], m)]

(* ------------------------------------------------------------------ *)
(* Decoding a review back to words                                     *)
(* ------------------------------------------------------------------ *)

\* dict([(value, key) for (key, value) in word_index.items()])
reverse_index(wi) ==
    [v \in {wi[w] : w \in DOMAIN wi} |-> CHOOSE w \in DOMAIN wi : wi[w] = v]

\* dict.get(key, default)
dict_get(d, key, default) == IF key \in DOMAIN d THEN d[key] ELSE default

\* a plausible slip: the offset of the reserved indices is forgotten
decode_token_no_offset(rwi, i) == dict_get(rwi, i, "?")

\* reverse_word_index.get(i - 3, '?')
decode_token(rwi, i) == dict_get(rwi, i - 3, "?")

\* [reverse_word_index.get(i - 3, '?') for i in review]; the words are
\* kept as a list, ' '.join puts one space between two of them
decode_review(rwi, review) ==
    [p \in 1..Len(review) |-> decode_token(rwi, review[p])]

\* regex.sub('', decoded) with regex ^[\?\s]+ : the leading run of '?'
\* (and the spaces joining them) is removed
strip_leading_unknown(ws) ==
    LET known == {p \in 1..Len(ws) : ws[p] # "?"}
    IN  IF known = {} THEN <<>>
        ELSE SubSeq(ws, CHOOSE p \in known : \A q \in known : p <= q, Len(ws))

(* ------------------------------------------------------------------ *)
(* State                                                               *)
(* ------------------------------------------------------------------ *)

VARIABLES
    imdb,                    \* the corpus imdb.load_data reads
    x_train, x_test,         \* the review arrays
    word_index,
    first_decoded_review, second_decoded_review,
    displayed,               \* the output of the last decoding cell
    dirs, files,             \* the notebook instance's file system
    s3,                      \* the objects of the session's default bucket
    inputs,                  \* the notebook variable inputs
    local_job,               \* the Local Mode training job
    hosted_job,              \* the hosted training job
    transform_job,           \* the batch transform job
    objective_metric_name, objective_type,
    tuner,                   \* the HyperparameterTuner object
    tuning_job,              \* the tuning job on the platform
    best_training_job,       \* the first row of the analytics ranking
    pc                       \* the next cell of the notebook to run

vars == <<pc, imdb, x_train, x_test, dirs, files, s3, inputs, local_job,
          hosted_job, transform_job, word_index, first_decoded_review,
          second_decoded_review, displayed, objective_metric_name,
          objective_type, tuner, tuning_job, best_training_job>>

data_vars == <<imdb, x_train, x_test>>
fs_vars == <<dirs, files>>
job_vars == <<local_job, hosted_job, transform_job>>
decode_vars == <<word_index, first_decoded_review, second_decoded_review,
                 displayed>>
objective_vars == <<objective_metric_name, objective_type>>
tuning_vars == <<tuner, tuning_job, best_training_job>>

NotStarted == [status |-> "NotStarted"]

Init ==
    /\ pc = "load"
    /\ imdb \in 1..NumCorpora
    /\ x_train = <<>>
    /\ x_test = <<>>
    /\ dirs = {}
    /\ files = {}
    /\ s3 = {}
    /\ inputs = [train |-> <<"none", "">>, test |-> <<"none", "">>]
    /\ local_job = NotStarted
    /\ hosted_job = NotStarted
    /\ transform_job = NotStarted
    /\ word_index = <<>>
    /\ first_decoded_review = <<>>
    /\ second_decoded_review = <<>>
    /\ displayed = <<>>
    /\ objective_metric_name = ""
    /\ objective_type = ""
    /\ tuner = NotStarted
    /\ tuning_job = NotStarted
    /\ best_training_job = NotStarted

(* ------------------------------------------------------------------ *)
(* Dataset preparation                                                 *)
(* ------------------------------------------------------------------ *)

\* (x_train, y_train), (x_test, y_test) = imdb.load_data(num_words=max_features)
\* x_train = sequence.pad_sequences(x_train, maxlen=maxlen), and x_test
LoadAndPad ==
    /\ pc = "load"
    /\ x_train' = pad_sequences(load_data(imdb, max_features).x_train, maxlen)
    /\ x_test' = pad_sequences(load_data(imdb, max_features).x_test, maxlen)
    /\ pc' = "makedirs"
    /\ UNCHANGED <<imdb, fs_vars, s3, inputs, job_vars, decode_vars,
                   objective_vars, tuning_vars>>

\* os.makedirs(..., exist_ok=True) for data, data/train, data/test, data/csv-test
MakeDirs ==
    /\ pc = "makedirs"
    /\ dirs' = dirs \cup {"data", train_dir, test_dir, csv_test_dir}
    /\ pc' = "save"
    /\ UNCHANGED <<data_vars, files, s3, inputs, job_vars, decode_vars,
                   objective_vars, tuning_vars>>

\* the files the save cell writes, as <<directory, name>>
SavedFiles ==
    {<<train_dir, "x_train.npy">>, <<train_dir, "y_train.npy">>,
     <<test_dir, "x_test.npy">>, <<test_dir, "y_test.npy">>,
     <<csv_test_dir, "csv-test.csv">>}

\* np.save(...) four times and np.savetxt(...); a missing directory raises
SaveArrays ==
    /\ pc = "save"
    /\ {f[1] : f \in SavedFiles} \subseteq dirs
    /\ files' = files \cup SavedFiles
    /\ pc' = "local_fit"
    /\ UNCHANGED <<data_vars, dirs, s3, inputs, job_vars, decode_vars,
                   objective_vars, tuning_vars>>

(* ------------------------------------------------------------------ *)
(* Channels, uploads, training and transform jobs                      *)
(* ------------------------------------------------------------------ *)

\* a plausible slip: the upload of an empty or wrong directory
upload_data_nothing(fs, path, key_prefix) == {}

\* sagemaker.Session().upload_data(path, key_prefix): every file under
\* path becomes an object <<key_prefix, name>>
upload_data(fs, path, key_prefix) ==
    {<<key_prefix, f[2]>> : f \in {g \in fs : g[1] = path}}

\* the names a job finds at a channel <<scheme, location>> when it starts
ChannelFiles(uri, fs, bucket) ==
    IF uri[1] = "file" THEN {f[2] : f \in {g \in fs : g[1] = uri[2]}}
    ELSE IF uri[1] = "s3" THEN {o[2] : o \in {g \in bucket : g[1] = uri[2]}}
    ELSE {}

\* inputs = {'train': file://train_dir, 'test': file://test_dir}
\* local_estimator.fit(inputs), which returns when training has ended
LocalFit ==
    /\ pc = "local_fit"
    /\ inputs' = [train |-> <<"file", train_dir>>, test |-> <<"file", test_dir>>]
    /\ local_job' = [status |-> "Completed",
                     train_instance_type |-> "local",
                     epochs |-> 1, batch_size |-> 128,
                     train |-> ChannelFiles(inputs'.train, files, s3),
                     test |-> ChannelFiles(inputs'.test, files, s3)]
    /\ pc' = "upload"
    /\ UNCHANGED <<data_vars, fs_vars, s3, hosted_job, transform_job,
                   decode_vars, objective_vars, tuning_vars>>

\* train_s3 = upload_data('./data/train/', traindata_s3_prefix), test_s3
\* likewise; inputs = {'train': train_s3, 'test': test_s3}
UploadTrainTest ==
    /\ pc = "upload"
    /\ s3' = s3 \cup upload_data(files, train_dir, traindata_s3_prefix)
                \cup upload_data(files, test_dir, testdata_s3_prefix)
    /\ inputs' = [train |-> <<"s3", traindata_s3_prefix>>,
                  test |-> <<"s3", testdata_s3_prefix>>]
    /\ pc' = "hosted_fit"
    /\ UNCHANGED <<data_vars, fs_vars, job_vars, decode_vars, objective_vars,
                   tuning_vars>>

\* estimator = TensorFlow(... 'ml.p3.2xlarge', epochs 10 ...); estimator.fit(inputs)
HostedFit ==
    /\ pc = "hosted_fit"
    /\ hosted_job' = [status |-> "Completed",
                      train_instance_type |-> "ml.p3.2xlarge",
                      epochs |-> 10, batch_size |-> 128,
                      train |-> ChannelFiles(inputs.train, files, s3),
                      test |-> ChannelFiles(inputs.test, files, s3)]
    /\ pc' = "csv_upload"
    /\ UNCHANGED <<data_vars, fs_vars, s3, inputs, local_job, transform_job,
                   decode_vars, objective_vars, tuning_vars>>

\* csvtest_s3 = upload_data('./data/csv-test/', csvtestdata_s3_prefix)
UploadCsvTest ==
    /\ pc = "csv_upload"
    /\ s3' = s3 \cup upload_data(files, csv_test_dir, csvtestdata_s3_prefix)
    /\ pc' = "transform"
    /\ UNCHANGED <<data_vars, fs_vars, inputs, job_vars, decode_vars,
                   objective_vars, tuning_vars>>

\* transformer = estimator.transformer(1, 'ml.m5.xlarge')
\* transformer.transform(csvtest_s3, content_type='text/csv'); transformer.wait()
BatchTransform ==
    /\ pc = "transform"
    /\ hosted_job.status = "Completed"
    /\ transform_job' = [status |-> "Completed",
                         instance_count |-> 1,
                         instance_type |-> "ml.m5.xlarge",
                         content_type |-> "text/csv",
                         data |-> ChannelFiles(<<"s3", csvtestdata_s3_prefix>>,
                                               files, s3)]
    /\ pc' = "decode_first"
    /\ UNCHANGED <<data_vars, fs_vars, s3, inputs, local_job, hosted_job,
                   decode_vars, objective_vars, tuning_vars>>

(* ------------------------------------------------------------------ *)
(* Decoding cells                                                      *)
(* ------------------------------------------------------------------ *)

\* word_index = imdb.get_word_index(); first_decoded_review from x_test[0]
DecodeFirst ==
    /\ pc = "decode_first"
    /\ word_index' = get_word_index
    /\ first_decoded_review' = decode_review(reverse_index(word_index'), x_test[1])
    /\ displayed' = strip_leading_unknown(first_decoded_review')
    /\ pc' = "decode_second"
    /\ UNCHANGED <<data_vars, fs_vars, s3, inputs, job_vars,
                   second_decoded_review, objective_vars, tuning_vars>>

\* second_decoded_review from x_test[5]
DecodeSecond ==
    /\ pc = "decode_second"
    /\ second_decoded_review' = decode_review(reverse_index(word_index), x_test[6])
    /\ displayed' = strip_leading_unknown(second_decoded_review')
    /\ pc' = "tuner_config"
    /\ UNCHANGED <<data_vars, fs_vars, s3, inputs, job_vars, word_index,
                   first_decoded_review, objective_vars, tuning_vars>>

(* ------------------------------------------------------------------ *)
(* Automatic model tuning                                              *)
(* ------------------------------------------------------------------ *)

\* objective_metric_name = 'val_acc'; objective_type = 'Maximize'
TunerConfig ==
    /\ pc = "tuner_config"
    /\ objective_metric_name' = "val_acc"
    /\ objective_type' = "Maximize"
    /\ pc' = "tuner_fit"
    /\ UNCHANGED <<data_vars, fs_vars, s3, inputs, job_vars, decode_vars,
                   tuning_vars>>

\* tuner = HyperparameterTuner(estimator, objective_metric_name, ...,
\*             early_stopping_type='Auto', objective_type=objective_type,
\*             max_jobs=10, max_parallel_jobs=2)
\* tuner.fit(inputs, job_name=tuning_job_name), which does not block
TunerFit ==
    /\ pc = "tuner_fit"
    /\ tuner' = [status |-> "Created",
                 objective_metric_name |-> objective_metric_name,
                 objective_type |-> objective_type,
                 early_stopping_type |-> "Auto",
                 max_jobs |-> max_jobs,
                 max_parallel_jobs |-> max_parallel_jobs]
    /\ tuning_job' = [status |-> "InProgress",
                      launched |-> 0,
                      running |-> 0,
                      rows |-> EmptyBag,
                      train |-> ChannelFiles(inputs.train, files, s3),
                      test |-> ChannelFiles(inputs.test, files, s3)]
    /\ pc' = "tuner_wait"
    /\ UNCHANGED <<data_vars, fs_vars, s3, inputs, job_vars, decode_vars,
                   objective_vars, best_training_job>>

\* what a training job reports at its end: validation accuracy in
\* percent, validation loss in hundredths
MetricOutcomes ==
    {[val_acc |-> 88, val_loss |-> 30],
     [val_acc |-> 90, val_loss |-> 45],
     [val_acc |-> 90, val_loss |-> 28]}

\* the FinalObjectiveValue column: the objective metric of the row
FinalObjectiveValue(row, t) == row[t.objective_metric_name]

\* row m is strictly worse than row r in the direction of the objective
Worse(m, r, t) ==
    IF t.objective_type = "Minimize"
    THEN FinalObjectiveValue(m, t) > FinalObjectiveValue(r, t)
    ELSE FinalObjectiveValue(m, t) < FinalObjectiveValue(r, t)

\* the number of training jobs of the tuning job that have ended
Finished(job) == BagCardinality(job.rows)

\* a plausible slip: the budget test is off by one
MayLaunchOffByOne(job, t) ==
    /\ job.launched <= t.max_jobs
    /\ job.running < t.max_parallel_jobs

\* a plausible slip: the parallelism test is off by one
MayLaunchOverParallel(job, t) ==
    /\ job.launched < t.max_jobs
    /\ job.running <= t.max_parallel_jobs

\* the platform starts one more training job: the budget is not used up
\* and fewer than max_parallel_jobs are running
MayLaunch(job, t) ==
    /\ job.launched < t.max_jobs
    /\ job.running < t.max_parallel_jobs

LaunchTrainingJob ==
    /\ pc = "tuner_wait"
    /\ tuning_job.status = "InProgress"
    /\ MayLaunch(tuning_job, tuner)
    /\ tuning_job' = [tuning_job EXCEPT !.launched = @ + 1, !.running = @ + 1]
    /\ UNCHANGED <<pc, data_vars, fs_vars, s3, inputs, job_vars, decode_vars,
                   objective_vars, tuner, best_training_job>>

\* a running training job ends normally
TrainingJobCompletes ==
    /\ pc = "tuner_wait"
    /\ tuning_job.status = "InProgress"
    /\ tuning_job.running > 0
    /\ \E m \in MetricOutcomes :
         tuning_job' = [tuning_job EXCEPT
            !.running = @ - 1,
            !.rows = @ (+) SetToBag({[TrainingJobStatus |-> "Completed",
                                      val_acc |-> m.val_acc,
                                      val_loss |-> m.val_loss]})]
    /\ UNCHANGED <<pc, data_vars, fs_vars, s3, inputs, job_vars, decode_vars,
                   objective_vars, tuner, best_training_job>>

\* early_stopping_type='Auto': the platform may stop a running training
\* job whose objective lags behind the jobs that ended before it
TrainingJobStoppedEarly ==
    /\ pc = "tuner_wait"
    /\ tuning_job.status = "InProgress"
    /\ tuner.early_stopping_type = "Auto"
    /\ tuning_job.running > 0
    /\ \E m \in MetricOutcomes :
         /\ \E r \in BagToSet(tuning_job.rows) : Worse(m, r, tuner)
         /\ tuning_job' = [tuning_job EXCEPT
               !.running = @ - 1,
               !.rows = @ (+) SetToBag({[TrainingJobStatus |-> "Stopped",
                                         val_acc |-> m.val_acc,
                                         val_loss |-> m.val_loss]})]
    /\ UNCHANGED <<pc, data_vars, fs_vars, s3, inputs, job_vars, decode_vars,
                   objective_vars, tuner, best_training_job>>

\* the tuning job completes once max_jobs training jobs have been executed
TuningJobCompletes ==
    /\ pc = "tuner_wait"
    /\ tuning_job.status = "InProgress"
    /\ tuning_job.running = 0
    /\ Finished(tuning_job) >= tuner.max_jobs
    /\ tuning_job' = [tuning_job EXCEPT !.status = "Completed"]
    /\ UNCHANGED <<pc, data_vars, fs_vars, s3, inputs, job_vars, decode_vars,
                   objective_vars, tuner, best_training_job>>

\* tuner.wait() returns when the tuning job has ended
TunerWaitReturns ==
    /\ pc = "tuner_wait"
    /\ tuning_job.status = "Completed"
    /\ pc' = "analytics"
    /\ UNCHANGED <<data_vars, fs_vars, s3, inputs, job_vars, decode_vars,
                   objective_vars, tuning_vars>>

\* the rows ranked first: the best objective in the tuner's direction
BestRows(job, t) ==
    {r \in BagToSet(job.rows) :
        \A q \in BagToSet(job.rows) :
            IF t.objective_type = "Minimize"
            THEN FinalObjectiveValue(r, t) <= FinalObjectiveValue(q, t)
            ELSE FinalObjectiveValue(r, t) >= FinalObjectiveValue(q, t)}

\* tuner_metrics = HyperparameterTuningJobAnalytics(tuning_job_name), the
\* ranking by FinalObjectiveValue, and the TrainingJobStatus column
Analytics ==
    /\ pc = "analytics"
    /\ best_training_job' \in BestRows(tuning_job, tuner)
    /\ pc' = "done"
    /\ UNCHANGED <<data_vars, fs_vars, s3, inputs, job_vars, decode_vars,
                   objective_vars, tuner, tuning_job>>

(* ------------------------------------------------------------------ *)
(* Specifications                                                      *)
(* ------------------------------------------------------------------ *)

Next ==
    \/ LoadAndPad
    \/ MakeDirs
    \/ SaveArrays
    \/ LocalFit
    \/ UploadTrainTest
    \/ HostedFit
    \/ UploadCsvTest
    \/ BatchTransform
    \/ DecodeFirst
    \/ DecodeSecond
    \/ TunerConfig
    \/ TunerFit
    \/ LaunchTrainingJob
    \/ TrainingJobCompletes
    \/ TrainingJobStoppedEarly
    \/ TuningJobCompletes
    \/ TunerWaitReturns
    \/ Analytics

Spec == Init /\ [][Next]_vars

\* the platform ends a tuning job whose budget is used up, and the poll
\* loop of tuner.wait() sees the end of the tuning job
FairSpec ==
    /\ Spec
    /\ WF_<<pc, tuning_job>>(TuningJobCompletes)
    /\ WF_<<pc, tuning_job>>(TunerWaitReturns)

(* ------------------------------------------------------------------ *)
(* Properties                                                          *)
(* ------------------------------------------------------------------ *)

TunerCreated == tuner.status = "Created"
TuningStarted == tuning_job.status # "NotStarted"
WaitReturned == pc \in {"analytics", "done"}

\* the lowest validation loss among the training jobs that ended
LowestValLoss(job) ==
    CHOOSE l \in {r.val_loss : r \in BagToSet(job.rows)} :
        \A r \in BagToSet(job.rows) : l <= r.val_loss

\* C1: the tuner is given the validation loss as objective metric and
\* Minimize as objective type, and the training job ranked best is one
\* with the lowest validation loss of the tuning job.
C1_MinimizesValidationLoss ==
    /\ TunerCreated => /\ tuner.objective_metric_name = "val_loss"
                       /\ tuner.objective_type = "Minimize"
    /\ pc = "done" => best_training_job.val_loss = LowestValLoss(tuning_job)

\* C2: when tuner.wait() has returned, every training job of the tuning
\* job has status Completed: none has been stopped early.
C2_AllTrainingJobsCompleted ==
    WaitReturned =>
        \A r \in BagToSet(tuning_job.rows) : r.TrainingJobStatus = "Completed"

Launches == TuningStarted /\ tuning_job'.launched = tuning_job.launched + 1

RawTrain == load_data(imdb, max_features).x_train
RawTest == load_data(imdb, max_features).x_test

ClaimedWord(wi, i) ==
    IF i \in {0, 1, 2} THEN "?"
    ELSE IF \E w \in DOMAIN wi : wi[w] = i - 3
         THEN CHOOSE w \in DOMAIN wi : wi[w] = i - 3
         ELSE "?"

DecodedAsClaimed(decoded, review) ==
    /\ Len(decoded) = Len(review)
    /\ \A p \in 1..Len(review) : decoded[p] = ClaimedWord(word_index, review[p])

\* C6: in a decoded review the integers 0, 1 and 2 are '?', and every
\* other integer i is the word whose word_index value is i - 3 ('?' only
\* when no word has that value); stated of each decoded review when its
\* cell has run (nothing assigns to it afterwards).
C6_DecodingReservesThreeIndices ==
    /\ pc = "decode_second" => DecodedAsClaimed(first_decoded_review, x_test[1])
    /\ pc = "tuner_config" => DecodedAsClaimed(second_decoded_review, x_test[6])

\* C6 witness: a decoded review that held padding, the start index, the
\* unknown index and a word
C6_Witness ==
    /\ pc = "decode_second"
    /\ \A i \in {0, 1, 2, 4} : \E p \in 1..Len(x_test[1]) : x_test[1][p] = i
    /\ \E p \in 1..Len(x_test[1]) : first_decoded_review[p] # "?"
    /\ \E p \in 1..Len(x_test[1]) : first_decoded_review[p] = "?"

\* C7: the train and test arrays are files when local training starts,
\* they are objects in S3 when hosted training starts, and the CSV test
\* file is an object in S3 when the batch transform job starts.
C7_DataInPlaceBeforeJobs ==
    /\ local_job.status = "Completed" =>
         /\ {"x_train.npy", "y_train.npy"} \subseteq local_job.train
         /\ {"x_test.npy", "y_test.npy"} \subseteq local_job.test
    /\ hosted_job.status = "Completed" =>
         /\ {"x_train.npy", "y_train.npy"} \subseteq hosted_job.train
         /\ {"x_test.npy", "y_test.npy"} \subseteq hosted_job.test
    /\ transform_job.status = "Completed" =>
         "csv-test.csv" \in transform_job.data

\* C7 witness: the three jobs have run
C7_Witness ==
    /\ pc = "decode_first"
    /\ local_job.status = "Completed"
    /\ hosted_job.status = "Completed"
    /\ transform_job.status = "Completed"

====
